---- MODULE Spec2Model ----
(***************************************************************************)
(* A model of cadence-crater: the manifest patcher (LocalOverride::patch), *)
(* the atomic manifest writer (write_cargo_toml), the repository stager    *)
(* (RemoteRepo::download), the version lookup (LocalVersion::version) and  *)
(* the loop over the projects (CraterApplication::run).                    *)
(*                                                                         *)
(* A TOML document is a table: a record [kv, sub] where kv maps keys to    *)
(* strings and sub maps keys to tables.  A manifest file is a sequence of  *)
(* cells; a line (a table header or a key/value pair) fills one cell, and  *)
(* a line with a long value fills a second one.  File offsets are counted  *)
(* in cells.                                                               *)
(***************************************************************************)
EXTENDS Integers, Sequences, FiniteSets, TLC

(***************************************************************************)
(* Bounds of the model.                                                    *)
(***************************************************************************)
\* number of patch calls made one after the other in a behaviour
MaxRuns == 2
\* number of download calls made one after the other in a behaviour
MaxDownloads == 2

(***************************************************************************)
(* TOML values.                                                            *)
(***************************************************************************)
NoMap == [k \in {} |-> ""]

EmptyTable == [kv |-> NoMap, sub |-> NoMap]

\* the keys that occur in the modelled manifests, in the order of the
\* serializer's sorted map
KeyOrder == <<"cadence", "crates-io", "dependencies", "name", "other",
              "package", "patch", "path", "version">>

Keys == {KeyOrder[n] : n \in 1..Len(KeyOrder)}

KeyIndex(k) == CHOOSE n \in 1..Len(KeyOrder) : KeyOrder[n] = k

\* the keys of set S in sorted order
RECURSIVE SortedKeys(_)
SortedKeys(S) ==
    IF S = {} THEN <<>>
    ELSE LET k == CHOOSE x \in S : \A y \in S : KeyIndex(x) <= KeyIndex(y)
         IN  <<k>> \o SortedKeys(S \ {k})

Restrict(f, S) == [k \in S |-> f[k]]

\* Map::insert with a string value: the key is replaced whatever it held
InsertStr(t, k, s) ==
    [kv  |-> [x \in (DOMAIN t.kv) \cup {k} |-> IF x = k THEN s ELSE t.kv[x]],
     sub |-> Restrict(t.sub, (DOMAIN t.sub) \ {k})]

\* Map::insert with a table value: the key is replaced whatever it held
InsertTbl(t, k, v) ==
    [kv  |-> Restrict(t.kv, (DOMAIN t.kv) \ {k}),
     sub |-> [x \in (DOMAIN t.sub) \cup {k} |-> IF x = k THEN v ELSE t.sub[x]]]

HasKey(t, k) == k \in DOMAIN t.kv \/ k \in DOMAIN t.sub

\* toml_map!["k" => Value::String(s)]
StrMap(k, s) == InsertStr(EmptyTable, k, s)

\* toml_map!["k" => Value::Table(v)]
TblMap(k, v) == InsertTbl(EmptyTable, k, v)

(***************************************************************************)
(* Serialization (toml::to_string) and parsing (str::parse::<Value>).      *)
(***************************************************************************)
HdrLine(p) == [kind |-> "hdr", path |-> p, key |-> "", val |-> ""]

KvLine(k, v) == [kind |-> "kv", path |-> <<>>, key |-> k, val |-> v]

\* the second cell of a line with a long value
ContLine == [kind |-> "cont", path |-> <<>>, key |-> "", val |-> ""]

\* the values that do not fit one cell
LongValues == {"2.0.0-local"}

\* a line no TOML parser accepts
JunkLine == [kind |-> "junk", path |-> <<>>, key |-> "", val |-> ""]

RECURSIVE KvLines(_, _)
KvLines(kv, ks) ==
    IF ks = <<>> THEN <<>>
    ELSE <<KvLine(Head(ks), kv[Head(ks)])>>
         \o (IF kv[Head(ks)] \in LongValues THEN <<ContLine>> ELSE <<>>)
         \o KvLines(kv, Tail(ks))

\* a table is written as its header (left out for the root table and for a
\* table that holds nothing but tables), its string entries in key order,
\* then its sub-tables in key order
RECURSIVE SerTable(_, _)
RECURSIVE SerSubs(_, _, _)
SerTable(t, p) ==
    (IF p # <<>> /\ (DOMAIN t.kv # {} \/ DOMAIN t.sub = {})
        THEN <<HdrLine(p)>> ELSE <<>>)
    \o KvLines(t.kv, SortedKeys(DOMAIN t.kv))
    \o SerSubs(t, p, SortedKeys(DOMAIN t.sub))
SerSubs(t, p, ks) ==
    IF ks = <<>> THEN <<>>
    ELSE SerTable(t.sub[Head(ks)], Append(p, Head(ks))) \o SerSubs(t, p, Tail(ks))

Serialize(doc) == SerTable(doc, <<>>)

\* the table at path p of t, or EmptyTable when the path is not there
RECURSIVE TableAt(_, _)
TableAt(t, p) ==
    IF p = <<>> THEN t
    ELSE IF Head(p) \in DOMAIN t.sub THEN TableAt(t.sub[Head(p)], Tail(p))
    ELSE EmptyTable

\* can a table be placed at path p: no string entry is in the way
RECURSIVE PathFree(_, _)
PathFree(t, p) ==
    IF p = <<>> THEN TRUE
    ELSE /\ Head(p) \notin DOMAIN t.kv
         /\ (Head(p) \in DOMAIN t.sub => PathFree(t.sub[Head(p)], Tail(p)))

\* t with the table at path p replaced by v, the tables on the way created
RECURSIVE PutAt(_, _, _)
PutAt(t, p, v) ==
    IF p = <<>> THEN v
    ELSE InsertTbl(t, Head(p),
                   PutAt(IF Head(p) \in DOMAIN t.sub THEN t.sub[Head(p)]
                         ELSE EmptyTable, Tail(p), v))

\* more: the line read last has a second cell to come
ParseStart ==
    [doc |-> EmptyTable, cur |-> <<>>, seen |-> {}, more |-> FALSE, ok |-> TRUE]

ParseLine(st, ln) ==
    IF ~st.ok THEN st
    ELSE IF st.more \/ ln.kind = "cont" THEN
        IF st.more /\ ln.kind = "cont"
           THEN [st EXCEPT !.more = FALSE]
           ELSE [st EXCEPT !.ok = FALSE]
    ELSE IF ln.kind = "hdr" THEN
        IF ln.path \in st.seen \/ ~PathFree(st.doc, ln.path)
           THEN [st EXCEPT !.ok = FALSE]
           ELSE [doc  |-> PutAt(st.doc, ln.path, TableAt(st.doc, ln.path)),
                 cur  |-> ln.path,
                 seen |-> st.seen \cup {ln.path},
                 more |-> FALSE,
                 ok   |-> TRUE]
    ELSE IF ln.kind = "kv" THEN
        IF HasKey(TableAt(st.doc, st.cur), ln.key)
           THEN [st EXCEPT !.ok = FALSE]
           ELSE [st EXCEPT !.doc = PutAt(st.doc, st.cur,
                                InsertStr(TableAt(st.doc, st.cur), ln.key, ln.val)),
                           !.more = ln.val \in LongValues]
    ELSE [st EXCEPT !.ok = FALSE]

RECURSIVE ParseFrom(_, _)
ParseFrom(st, text) ==
    IF text = <<>> THEN st ELSE ParseFrom(ParseLine(st, Head(text)), Tail(text))

ParseOk(text) ==
    LET st == ParseFrom(ParseStart, text) IN st.ok /\ ~st.more

Parse(text) == ParseFrom(ParseStart, text).doc

(***************************************************************************)
(* The mutations of LocalOverride::patch.                                  *)
(***************************************************************************)
\* Change Cadence dependencies to a local checkout: the `patch` key of the
\* table is inserted anew
override_source(table, path) ==
    InsertTbl(table, "patch",
              TblMap("crates-io", TblMap("cadence", StrMap("path", path))))

\* get_mut("dependencies").and_then(as_table_mut)
has_dependencies(table) == "dependencies" \in DOMAIN table.sub

\* the entry is appended, under the first key that is free, not replaced
override_version_append(table, version) ==
    IF has_dependencies(table)
       THEN LET deps == table.sub["dependencies"]
                free == {n \in 1..Len(KeyOrder) : ~HasKey(deps, KeyOrder[n])}
                key  == IF free = {} THEN "cadence"
                        ELSE KeyOrder[CHOOSE n \in free : \A j \in free : n <= j]
            IN  InsertTbl(table, "dependencies", InsertStr(deps, key, version))
       ELSE table

\* Change the version of Cadence required: the table after the call
override_version_existing(table, version) ==
    IF has_dependencies(table) /\ HasKey(table.sub["dependencies"], "cadence")
       THEN InsertTbl(table, "dependencies",
                      InsertStr(table.sub["dependencies"], "cadence", version))
       ELSE table

override_version(table, version) ==
    IF has_dependencies(table)
       THEN InsertTbl(table, "dependencies",
                      InsertStr(table.sub["dependencies"], "cadence", version))
       ELSE table

\* the bool override_version returns: Map::insert gave back an old value
override_version_ret(table) ==
    has_dependencies(table) /\ HasKey(table.sub["dependencies"], "cadence")

(***************************************************************************)
(* The file system: manifests, and one `.cadence-rename` per directory.    *)
(***************************************************************************)
Manifests == {"root", "c1", "c2"}

Dirs == {"d0", "d1", "d2"}

\* path.parent(): the directory of a manifest
DirOf(m) == CASE m = "root" -> "d0" [] m = "c1" -> "d1" [] m = "c2" -> "d2"

NoFile == [exists |-> FALSE, text |-> <<>>]

File(text) == [exists |-> TRUE, text |-> text]

\* the text of a file after cell `line` is written at offset n (counted from 1):
\* what is already there is overwritten, the rest is kept
WriteAt(text, n, line) ==
    [j \in 1..(IF n > Len(text) THEN n ELSE Len(text)) |->
        IF j = n THEN line ELSE text[j]]

(***************************************************************************)
(* The inputs.                                                             *)
(***************************************************************************)
OldVersion == "1.0"

Versions == {"2.0", "2.0.0-local"}

LocalPaths == {"/abs"}

\* number of child manifests a LocalOverride is built with, at most
MaxCrates == 2

\* a manifest that requires cadence
DocPlain == TblMap("dependencies", StrMap("cadence", OldVersion))

\* a manifest with no `dependencies` table
DocNoDeps == TblMap("package", StrMap("name", "p"))

\* a manifest that requires cadence and patches another crate
DocSibling ==
    InsertTbl(DocPlain, "patch",
              TblMap("crates-io", TblMap("other", StrMap("path", "/o"))))

\* a manifest a person wrote: the tables are not in the serializer's order,
\* and `dependencies` does not name cadence
TextByHand ==
    <<HdrLine(<<"patch", "crates-io", "other">>), KvLine("path", "/o"),
      HdrLine(<<"dependencies">>), KvLine("other", OldVersion)>>

\* a file that is not TOML
TextJunk == <<JunkLine>>

\* the manifests a project may hold before it is patched
InitFiles(m) ==
    CASE m = "root" -> {File(Serialize(DocPlain)), File(Serialize(DocNoDeps)),
                        File(Serialize(DocSibling)), File(TextJunk), NoFile}
      [] m = "c1"   -> {File(Serialize(DocPlain)), File(Serialize(DocNoDeps)),
                        File(TextByHand), NoFile}
      [] m = "c2"   -> {File(Serialize(DocPlain)), NoFile}

\* the child sequences: any manifest may be named, also the root, each once
RECURSIVE SeqsUpTo(_, _)
SeqsUpTo(S, n) ==
    IF n = 0 THEN {<<>>}
    ELSE LET R == SeqsUpTo(S, n - 1)
         IN  R \cup {Append(q, x) : q \in {r \in R : Len(r) = n - 1}, x \in S}

NoRepeat(q) == \A a, b \in 1..Len(q) : q[a] = q[b] => a = b

CrateSeqs == {q \in SeqsUpTo(Manifests, MaxCrates) : NoRepeat(q)}

(***************************************************************************)
(* The state.                                                              *)
(***************************************************************************)
VARIABLES
    disk,      \* the manifest files: [Manifests -> file]
    tmp,       \* the `.cadence-rename` file of each directory
    cfg,       \* the LocalOverride: [root, crates]
    pc,        \* the position of the running patch call
    args,      \* the arguments of the running patch call: [version, path]
    rootDoc,   \* `root` of patch
    idx,       \* the position of the loop over self.crates
    crateDoc,  \* `crate_root` of patch
    wr,        \* write_cargo_toml: [target, contents, off]
    result,    \* what the last patch call returned
    runs,      \* the number of patch calls made
    hist,      \* the record of the calls made, for stating properties
    stage,     \* the directories under the download destination
    dl,        \* the download calls made
    lv,        \* the LocalVersion::version call: [pc, file, ret]
    app,       \* CraterApplication::run: its position and what it resolved
    race       \* two write_cargo_toml calls running at the same time

vars == <<disk, tmp, cfg, pc, args, rootDoc, idx, crateDoc, wr, result, runs,
          hist, stage, dl, lv, app, race>>

patchVars == <<disk, tmp, cfg, pc, args, rootDoc, idx, crateDoc, wr, result,
               runs, hist>>

stageVars == <<stage, dl>>

restVars == <<lv, app, race>>

NoArgs == [version |-> "", path |-> ""]

NoWrite == [target |-> "", contents |-> <<>>, off |-> 0]

NoResult == [status |-> "none", at |-> 0]

Ok == [status |-> "ok", at |-> 0]

\* an error returned while working on crate number n (0: the root)
Err(kind, n) == [status |-> kind, at |-> n]

(***************************************************************************)
(* LocalOverride::patch, one step for each access to the file system.      *)
(***************************************************************************)
LoadStatus_lenient(m) ==
    IF ~disk[m].exists THEN "read" ELSE "ok"

\* load_cargo_toml without an I/O error: unreadable, not TOML, or loaded
LoadStatus(m) ==
    IF ~disk[m].exists THEN "read"
    ELSE IF ~ParseOk(disk[m].text) THEN "parse"
    ELSE "ok"

\* the error an operation that ended at position idx is about
ErrAt == IF idx >= 1 /\ idx <= Len(cfg.crates) THEN idx ELSE 0

\* patch returns
Finish(res) ==
    /\ pc' = "done"
    /\ result' = res
    /\ rootDoc' = EmptyTable
    /\ crateDoc' = EmptyTable
    /\ wr' = NoWrite
    /\ idx' = 0

\* write_cargo_toml is entered: the document is serialized
BeginWrite(m, doc) ==
    /\ wr' = [target |-> m, contents |-> Serialize(doc), off |-> 0]
    /\ pc' = "w_open"
    /\ hist' = [hist EXCEPT !.pre = disk[m]]

\* patch(version, path) is called on the LocalOverride
Call(v, p) ==
    /\ pc \in {"idle", "done"}
    /\ runs < MaxRuns
    /\ runs' = runs + 1
    /\ pc' = "load_root"
    /\ args' = [version |-> v, path |-> p]
    /\ result' = NoResult
    /\ LET again == result.status \notin {"none", "ok"}
                    /\ args = [version |-> v, path |-> p]
       IN  hist' = [start |-> disk,
                    base  |-> IF again THEN hist.base ELSE disk,
                    retry |-> again,
                    prev  |-> [args |-> args, status |-> result.status],
                    wlog  |-> <<>>,
                    pre   |-> NoFile]
    /\ UNCHANGED <<disk, tmp, cfg, rootDoc, idx, crateDoc, wr, stageVars, restVars>>

\* let mut root = load_cargo_toml(&self.root)?; override_source; and, with
\* no subprojects, override_version and the call of write_cargo_toml
LoadRoot(ioerr) ==
    /\ pc = "load_root"
    /\ LET st == IF ioerr THEN "read" ELSE LoadStatus(cfg.root)
       IN  IF st # "ok"
              THEN /\ Finish(Err(st, 0))
                   /\ UNCHANGED hist
              ELSE LET doc == override_source(Parse(disk[cfg.root].text), args.path)
                   IN  IF cfg.crates = <<>>
                          THEN /\ rootDoc' = override_version(doc, args.version)
                               /\ BeginWrite(cfg.root, rootDoc')
                               /\ idx' = 1
                               /\ UNCHANGED <<crateDoc, result>>
                          ELSE /\ rootDoc' = doc
                               /\ idx' = 1
                               /\ pc' = "load_crate"
                               /\ UNCHANGED <<crateDoc, result, wr, hist>>
    /\ UNCHANGED <<disk, tmp, cfg, args, runs, stageVars, restVars>>

\* the body of the loop over self.crates up to the call of write_cargo_toml
LoadCrate(ioerr) ==
    /\ pc = "load_crate"
    /\ LET m  == cfg.crates[idx]
           st == IF ioerr THEN "read" ELSE LoadStatus(m)
       IN  IF st # "ok"
              THEN /\ Finish(Err(st, idx))
                   /\ UNCHANGED hist
              ELSE /\ crateDoc' = override_version(Parse(disk[m].text), args.version)
                   /\ BeginWrite(m, crateDoc')
                   /\ UNCHANGED <<rootDoc, idx, result>>
    /\ UNCHANGED <<disk, tmp, cfg, args, runs, stageVars, restVars>>

\* OpenOptions::new().read(false).write(true).create(true).open(&tmp_path)
WOpen ==
    /\ pc = "w_open"
    /\ tmp' = [tmp EXCEPT ![DirOf(wr.target)] =
                  IF @.exists THEN @ ELSE File(<<>>)]
    /\ pc' = IF wr.contents = <<>> THEN "w_flush" ELSE "w_write"
    /\ UNCHANGED <<disk, cfg, args, rootDoc, idx, crateDoc, wr, result, runs,
                   hist, stageVars, restVars>>

\* fd.write_all(contents.as_bytes()): the next cell goes to the file
WWrite ==
    /\ pc = "w_write"
    /\ tmp' = [tmp EXCEPT ![DirOf(wr.target)].text =
                  WriteAt(@, wr.off + 1, wr.contents[wr.off + 1])]
    /\ wr' = [wr EXCEPT !.off = @ + 1]
    /\ pc' = IF wr.off + 1 = Len(wr.contents) THEN "w_flush" ELSE "w_write"
    /\ UNCHANGED <<disk, cfg, args, rootDoc, idx, crateDoc, result, runs, hist,
                   stageVars, restVars>>

\* fd.flush()
WFlush ==
    /\ pc = "w_flush"
    /\ pc' = "w_sync"
    /\ UNCHANGED <<disk, tmp, cfg, args, rootDoc, idx, crateDoc, wr, result,
                   runs, hist, stageVars, restVars>>

\* fd.sync_all(), and the file is closed at the end of the block
WSync ==
    /\ pc = "w_sync"
    /\ pc' = "w_rename"
    /\ UNCHANGED <<disk, tmp, cfg, args, rootDoc, idx, crateDoc, wr, result,
                   runs, hist, stageVars, restVars>>

WRename_copy ==
    /\ pc = "w_rename"
    /\ disk' = [disk EXCEPT ![wr.target] = tmp[DirOf(wr.target)]]
    /\ tmp' = tmp
    /\ IF idx <= Len(cfg.crates)
          THEN /\ idx' = idx + 1
               /\ UNCHANGED <<rootDoc, crateDoc, result>>
               /\ IF idx + 1 <= Len(cfg.crates)
                     THEN /\ pc' = "load_crate"
                          /\ wr' = NoWrite
                          /\ hist' = [hist EXCEPT !.wlog = Append(@, wr.target)]
                     ELSE /\ wr' = [target |-> cfg.root,
                                    contents |-> Serialize(rootDoc), off |-> 0]
                          /\ pc' = "w_open"
                          /\ hist' = [hist EXCEPT !.wlog = Append(@, wr.target),
                                                  !.pre = disk'[cfg.root]]
          ELSE /\ Finish(Ok)
               /\ hist' = [hist EXCEPT !.wlog = Append(@, wr.target)]
    /\ UNCHANGED <<cfg, args, runs, stageVars, restVars>>

\* fs::rename(tmp_path, &p), and what patch does when the write returned Ok
WRename ==
    /\ pc = "w_rename"
    /\ disk' = [disk EXCEPT ![wr.target] = tmp[DirOf(wr.target)]]
    /\ tmp' = [tmp EXCEPT ![DirOf(wr.target)] = NoFile]
    /\ IF idx <= Len(cfg.crates)
          THEN /\ idx' = idx + 1
               /\ UNCHANGED <<rootDoc, crateDoc, result>>
               /\ IF idx + 1 <= Len(cfg.crates)
                     THEN /\ pc' = "load_crate"
                          /\ wr' = NoWrite
                          /\ hist' = [hist EXCEPT !.wlog = Append(@, wr.target)]
                     ELSE /\ wr' = [target |-> cfg.root,
                                    contents |-> Serialize(rootDoc), off |-> 0]
                          /\ pc' = "w_open"
                          /\ hist' = [hist EXCEPT !.wlog = Append(@, wr.target),
                                                  !.pre = disk'[cfg.root]]
          ELSE /\ Finish(Ok)
               /\ hist' = [hist EXCEPT !.wlog = Append(@, wr.target)]
    /\ UNCHANGED <<cfg, args, runs, stageVars, restVars>>

\* open, write_all, flush, sync_all or rename returns an io::Error
WFail ==
    /\ pc \in {"w_open", "w_write", "w_flush", "w_sync", "w_rename"}
    /\ Finish(Err("write", ErrAt))
    /\ UNCHANGED <<disk, tmp, cfg, args, runs, hist, stageVars, restVars>>

(***************************************************************************)
(* RemoteRepo::download.                                                   *)
(***************************************************************************)
\* a URL is read as a path: a sequence of components, each a name with a
\* stem and an extension, or `..`
Comp(stem, ext) == [kind |-> "normal", stem |-> stem, ext |-> ext]

ParentComp == [kind |-> "parent", stem |-> "", ext |-> ""]

Urls ==
    {<<Comp("https:", ""), Comp("host", ""), Comp("foo", ".git")>>,
     <<Comp("https:", ""), Comp("host", ""), Comp("foo", "")>>,
     <<Comp("https:", ""), Comp("host", ""), Comp("bar", ".git")>>,
     <<Comp("https:", ""), Comp("host", ""), ParentComp>>,
     <<>>}

\* the destinations download is called with
Dests == {"/tmp", "/dest"}

None == [some |-> FALSE, val |-> ""]

Some(x) == [some |-> TRUE, val |-> x]

\* PathBuf::from(&self.url).file_stem(): the last component without its
\* extension, when the path ends in a name
file_stem(url) ==
    IF url = <<>> \/ url[Len(url)].kind # "normal" THEN None
    ELSE Some(url[Len(url)].stem)

proj_name_default(url) ==
    IF file_stem(url).some THEN file_stem(url) ELSE Some("foo")

\* proj_name: the stem, or an error
proj_name(url) == file_stem(url)

StageNames == {file_stem(u).val : u \in {x \in Urls : file_stem(x).some}}

\* what is at a path under a destination: nothing, an empty directory, a
\* checkout, or a directory with files that is no checkout
DirStates == {"absent", "empty", "repo", "other"}

\* into.as_ref().join(name)
Join(into, name) == <<into, name>>

\* the code Repository::clone ends with: the target holds files already, or
\* the transfer works, or it does not
CloneCode(dir, transfer) ==
    IF dir \in {"repo", "other"} THEN "Exists"
    ELSE IF transfer THEN "Ok"
    ELSE "Net"

\* the closure given to or_else: open the checkout in place, or give the
\* error back
or_else_never(code) == "err"

or_else_always(code) == "open"

or_else(code) == IF code = "Exists" THEN "open" ELSE "err"

\* Repository::open
OpenCode(dir) == IF dir = "repo" THEN "Ok" ELSE "NotFound"

NoRet == [status |-> "none", path |-> <<>>]

RetOk(full) == [status |-> "ok", path |-> full]

RetErr(kind) == [status |-> kind, path |-> <<>>]

NoCall == [url |-> <<>>, into |-> "", ret |-> NoRet]

DlIdle == [pc |-> "idle", url |-> <<>>, into |-> "", full |-> <<>>, ops |-> <<>>,
           ret |-> NoRet, n |-> 0, prev |-> NoCall]

\* download(into) is called on RemoteRepo { url }: the path is made
Download(u, into) ==
    /\ dl.pc \in {"idle", "done"}
    /\ dl.n < MaxDownloads
    /\ LET name == proj_name(u)
       IN  dl' = [pc   |-> IF name.some THEN "clone" ELSE "done",
                  url  |-> u,
                  into |-> into,
                  full |-> IF name.some THEN Join(into, name.val) ELSE <<>>,
                  ops  |-> <<>>,
                  ret  |-> IF name.some THEN NoRet ELSE RetErr("name"),
                  n    |-> dl.n + 1,
                  prev |-> [url |-> dl.url, into |-> dl.into, ret |-> dl.ret]]
    /\ UNCHANGED <<stage, patchVars, restVars>>

\* Repository::clone(&self.url, &full), and the or_else closure's choice
Clone(transfer) ==
    /\ dl.pc = "clone"
    /\ LET code == CloneCode(stage[dl.full], transfer)
           ops  == Append(dl.ops, [op |-> "clone", code |-> code])
       IN  IF code = "Ok"
              THEN /\ stage' = [stage EXCEPT ![dl.full] = "repo"]
                   /\ dl' = [dl EXCEPT !.pc = "done", !.ops = ops,
                                       !.ret = RetOk(dl.full)]
              ELSE /\ stage' = stage
                   /\ IF or_else(code) = "open"
                         THEN dl' = [dl EXCEPT !.pc = "open", !.ops = ops]
                         ELSE dl' = [dl EXCEPT !.pc = "done", !.ops = ops,
                                               !.ret = RetErr("vcs")]
    /\ UNCHANGED <<patchVars, restVars>>

\* Repository::open(&full), map_err and the return
Open ==
    /\ dl.pc = "open"
    /\ LET code == OpenCode(stage[dl.full])
       IN  dl' = [dl EXCEPT !.pc = "done",
                            !.ops = Append(@, [op |-> "open", code |-> code]),
                            !.ret = IF code = "Ok" THEN RetOk(dl.full)
                                    ELSE RetErr("vcs")]
    /\ UNCHANGED <<stage, patchVars, restVars>>

StagePaths == {Join(d, n) : d \in Dests, n \in StageNames}

StageInit0 ==
    /\ stage = [f \in StagePaths |-> "absent"]
    /\ dl = DlIdle

(***************************************************************************)
(* The parts of the state that rest while the patcher or the stager runs.  *)
(***************************************************************************)
NoVersion == [status |-> "none", val |-> ""]

LvIdle == [pc |-> "idle", file |-> NoFile, ioerr |-> FALSE, ret |-> NoVersion]

NoExit == [status |-> "none", step |-> "", cause |-> ""]

AppIdle == [pc |-> "off", i |-> 0, projects |-> <<>>, cadence |-> NoFile,
            version |-> "", path |-> "", ret |-> NoExit, calls |-> <<>>,
            disk0 |-> <<>>, stage0 |-> <<>>, snap |-> <<>>]

RaceIdle == [names |-> <<>>, inodes |-> <<>>, procs |-> <<>>]

RestIdle ==
    /\ lv = LvIdle
    /\ app = AppIdle
    /\ race = RaceIdle

Init ==
    /\ disk \in [Manifests -> UNION {InitFiles(m) : m \in Manifests}]
    /\ \A m \in Manifests : disk[m] \in InitFiles(m)
    /\ tmp = [d \in Dirs |-> NoFile]
    /\ cfg \in {[root |-> "root", crates |-> cs] : cs \in CrateSeqs}
    \* a manifest the LocalOverride does not name plays no part
    /\ \A m \in Manifests :
          (m # cfg.root /\ \A n \in 1..Len(cfg.crates) : cfg.crates[n] # m) =>
              disk[m] = NoFile
    /\ pc = "idle"
    /\ args = NoArgs
    /\ rootDoc = EmptyTable
    /\ crateDoc = EmptyTable
    /\ idx = 0
    /\ wr = NoWrite
    /\ result = NoResult
    /\ runs = 0
    /\ hist = [start |-> disk, base |-> disk, retry |-> FALSE,
               prev |-> [args |-> NoArgs, status |-> "none"],
               wlog |-> <<>>, pre |-> NoFile]
    /\ StageInit0
    /\ RestIdle

Next ==
    \/ \E v \in Versions, p \in LocalPaths : Call(v, p)
    \/ \E e \in BOOLEAN : LoadRoot(e)
    \/ \E e \in BOOLEAN : LoadCrate(e)
    \/ WOpen
    \/ WWrite
    \/ WFlush
    \/ WSync
    \/ WRename
    \/ WFail

Spec == Init /\ [][Next]_vars

\* the stager alone, over every content of the destinations
StageInit ==
    /\ stage \in [StagePaths -> DirStates]
    /\ dl = DlIdle
    /\ disk = [m \in Manifests |-> NoFile]
    /\ tmp = [d \in Dirs |-> NoFile]
    /\ cfg = [root |-> "root", crates |-> <<>>]
    /\ pc = "idle"
    /\ args = NoArgs
    /\ rootDoc = EmptyTable
    /\ crateDoc = EmptyTable
    /\ idx = 0
    /\ wr = NoWrite
    /\ result = NoResult
    /\ runs = 0
    /\ hist = [start |-> disk, base |-> disk, retry |-> FALSE,
               prev |-> [args |-> NoArgs, status |-> "none"],
               wlog |-> <<>>, pre |-> NoFile]
    /\ RestIdle

StageNext ==
    \/ \E u \in Urls, into \in Dests : Download(u, into)
    \/ \E t \in BOOLEAN : Clone(t)
    \/ Open

SpecStage == StageInit /\ [][StageNext]_vars

(***************************************************************************)
(* LocalVersion::version.                                                  *)
(***************************************************************************)
\* the number of cells of the manifests version is called on
MaxLines == 3

\* the cells those manifests are made of
VersionCells ==
    {HdrLine(<<"package">>), HdrLine(<<"package", "version">>),
     HdrLine(<<"dependencies">>), KvLine("version", "2.0"),
     KvLine("version", "2.0.0-local"), ContLine, KvLine("package", "x"),
     KvLine("name", "p"), JunkLine}

VersionFiles == {NoFile} \cup {File(t) : t \in SeqsUpTo(VersionCells, MaxLines)}

\* load_cargo_toml on a file: the document, or the step that failed
load_cargo_toml_partial(f, ioerr) ==
    IF ioerr \/ ~f.exists THEN [status |-> "read", doc |-> EmptyTable]
    ELSE [status |-> "ok", doc |-> Parse(f.text)]

load_cargo_toml(f, ioerr) ==
    IF ioerr \/ ~f.exists THEN [status |-> "read", doc |-> EmptyTable]
    ELSE IF ~ParseOk(f.text) THEN [status |-> "parse", doc |-> EmptyTable]
    ELSE [status |-> "ok", doc |-> Parse(f.text)]

\* Value::get(key) followed by as_table
get_table(t, k) == IF k \in DOMAIN t.sub THEN [some |-> TRUE, val |-> t.sub[k]]
                   ELSE [some |-> FALSE, val |-> EmptyTable]

\* Value::get(key) followed by as_str
get_str(t, k) == IF k \in DOMAIN t.kv THEN Some(t.kv[k]) ELSE None

\* version: the string at package.version, or the error
version(f, ioerr) ==
    LET root == load_cargo_toml(f, ioerr)
    IN  IF root.status # "ok" THEN [status |-> "load", val |-> ""]
        ELSE LET package == get_table(root.doc, "package")
                 found   == IF package.some THEN get_str(package.val, "version")
                            ELSE None
             IN  IF found.some THEN [status |-> "ok", val |-> found.val]
                 ELSE [status |-> "missing", val |-> ""]

\* version() is called on the LocalVersion of the manifest lv.file
VersionCall(ioerr) ==
    /\ lv.pc = "idle"
    /\ lv' = [lv EXCEPT !.pc = "done", !.ioerr = ioerr,
                        !.ret = version(lv.file, ioerr)]
    /\ UNCHANGED <<patchVars, stageVars, app, race>>

VersionInit ==
    /\ lv \in {[LvIdle EXCEPT !.file = f] : f \in VersionFiles}
    /\ app = AppIdle
    /\ race = RaceIdle
    /\ StageInit0
    /\ disk = [m \in Manifests |-> NoFile]
    /\ tmp = [d \in Dirs |-> NoFile]
    /\ cfg = [root |-> "root", crates |-> <<>>]
    /\ pc = "idle"
    /\ args = NoArgs
    /\ rootDoc = EmptyTable
    /\ crateDoc = EmptyTable
    /\ idx = 0
    /\ wr = NoWrite
    /\ result = NoResult
    /\ runs = 0
    /\ hist = [start |-> disk, base |-> disk, retry |-> FALSE,
               prev |-> [args |-> NoArgs, status |-> "none"],
               wlog |-> <<>>, pre |-> NoFile]

VersionNext == \E e \in BOOLEAN : VersionCall(e)

SpecVersion == VersionInit /\ [][VersionNext]_vars

(***************************************************************************)
(* CraterApplication::run.                                                 *)
(***************************************************************************)
\* the number of projects of the configuration
MaxProjects == 2

\* a [[projects]] entry: the repository, and the root and the subprojects as
\* the manifests they name
Project(url, root, crates) == [url |-> url, root |-> root, crates |-> crates]

Projects ==
    {Project(<<Comp("https:", ""), Comp("host", ""), Comp("foo", ".git")>>,
             "root", <<>>),
     Project(<<Comp("https:", ""), Comp("host", ""), Comp("foo", ".git")>>,
             "root", <<"c1">>),
     Project(<<Comp("https:", ""), Comp("host", ""), Comp("bar", ".git")>>,
             "c2", <<>>),
     Project(<<>>, "c1", <<>>)}

\* the manifests of a project
ManifestsOf(pr) == {pr.root} \cup {pr.crates[n] : n \in 1..Len(pr.crates)}

\* the configurations: the projects are checked out apart from each other
ProjectSeqs ==
    {q \in SeqsUpTo(Projects, MaxProjects) :
        \A a, b \in 1..Len(q) :
            a # b => ManifestsOf(q[a]) \cap ManifestsOf(q[b]) = {}}

\* the Cargo.toml of the local cadence crate
CadenceFiles ==
    {File(<<HdrLine(<<"package">>), KvLine("version", "2.0.0-local"), ContLine>>),
     File(<<HdrLine(<<"package">>), KvLine("version", "2.0")>>),
     File(<<HdrLine(<<"package">>), KvLine("name", "p")>>)}

\* the manifests as the checkouts hold them
RunFiles == {File(Serialize(DocPlain)), File(TextJunk)}

\* the destination run stages into
RunDest == "/dest"

Exit(status, step, cause) == [status |-> status, step |-> step, cause |-> cause]

Event(op, n) == [op |-> op, i |-> n]

\* the `?` operator: go on with the value, or return the error
Try_ignore(status) == "continue"

Try(status) == IF status = "ok" THEN "continue" ELSE "return"

\* the call has returned
Returned_early(p) == p # "idle"

Returned(p) == p = "done"

\* what run does once the loop body of project app.i is over
NextProject ==
    IF app.i < Len(app.projects)
       THEN [app EXCEPT !.pc = "remote", !.i = @ + 1]
       ELSE [app EXCEPT !.pc = "done", !.ret = Exit("ok", "", "")]

\* let local_version = local_cadence.version()?
RunVersion(ioerr) ==
    /\ app.pc = "version"
    /\ LET r     == version(app.cadence, ioerr)
           calls == Append(app.calls, Event("version", 0))
       IN  app' = IF Try(IF r.status = "ok" THEN "ok" ELSE "err") = "continue"
                     THEN [app EXCEPT !.pc = "path", !.version = r.val,
                                      !.calls = calls]
                     ELSE [app EXCEPT !.pc = "done", !.calls = calls,
                                      !.ret = Exit("err", "version", r.status)]
    /\ UNCHANGED <<patchVars, stageVars, lv, race>>

\* let local_path = local_cadence.path()?
RunPath(ok) ==
    /\ app.pc = "path"
    /\ LET calls == Append(app.calls, Event("path", 0))
       IN  app' = IF Try(IF ok THEN "ok" ELSE "err") = "continue"
                     THEN [app EXCEPT !.pc = "config", !.path = "/abs",
                                      !.calls = calls]
                     ELSE [app EXCEPT !.pc = "done", !.calls = calls,
                                      !.ret = Exit("err", "path", "missing")]
    /\ UNCHANGED <<patchVars, stageVars, lv, race>>

\* let cfg = self.config()?
RunConfig(ok) ==
    /\ app.pc = "config"
    /\ LET calls == Append(app.calls, Event("config", 0))
       IN  app' = IF Try(IF ok THEN "ok" ELSE "err") = "continue"
                     THEN [app EXCEPT !.pc = "destination", !.calls = calls]
                     ELSE [app EXCEPT !.pc = "done", !.calls = calls,
                                      !.ret = Exit("err", "config", "load")]
    /\ UNCHANGED <<patchVars, stageVars, lv, race>>

\* let downloads = self.destination()?, and the loop is entered
RunDestination(ok) ==
    /\ app.pc = "destination"
    /\ LET calls == Append(app.calls, Event("destination", 0))
       IN  app' = IF Try(IF ok THEN "ok" ELSE "err") = "continue"
                     THEN [NextProject EXCEPT !.calls = calls]
                     ELSE [app EXCEPT !.pc = "done", !.calls = calls,
                                      !.ret = Exit("err", "destination", "io")]
    /\ UNCHANGED <<patchVars, stageVars, lv, race>>

\* let remote = RemoteRepo::new(project.repo.clone())
RunRemote ==
    /\ app.pc = "remote"
    /\ app' = [app EXCEPT !.pc = "download",
                          !.calls = Append(@, Event("remote", app.i))]
    /\ UNCHANGED <<patchVars, stageVars, lv, race>>

\* remote.download(&downloads) is called
RunDownload ==
    /\ app.pc = "download"
    /\ dl.n = app.i - 1
    /\ Download(app.projects[app.i].url, RunDest)

\* download returns: `?`, then the paths are made and
\* LocalOverride::new(root, crates)
RunStaged ==
    /\ app.pc = "download"
    /\ dl.n = app.i
    /\ Returned(dl.pc)
    /\ LET calls == Append(app.calls, Event("download", app.i))
           pr    == app.projects[app.i]
       IN  IF Try(dl.ret.status) = "continue"
              THEN /\ app' = [app EXCEPT !.pc = "patch", !.calls = calls]
                   /\ cfg' = [root |-> pr.root, crates |-> pr.crates]
              ELSE /\ app' = [app EXCEPT !.pc = "done", !.calls = calls,
                                         !.ret = Exit("err", "download",
                                                      dl.ret.status)]
                   /\ cfg' = cfg
    /\ UNCHANGED <<disk, tmp, pc, args, rootDoc, idx, crateDoc, wr, result,
                   runs, hist, stageVars, lv, race>>

\* patch.patch(&local_version, &local_path) is called
RunPatch ==
    /\ app.pc = "patch"
    /\ runs = app.i - 1
    /\ Call(app.version, app.path)

\* patch returns: `?`, then the next project or Ok(())
RunPatched ==
    /\ app.pc = "patch"
    /\ runs = app.i
    /\ Returned(pc)
    /\ LET calls == Append(app.calls, Event("patch", app.i))
       IN  app' = IF Try(result.status) = "continue"
                     THEN [NextProject EXCEPT !.calls = calls,
                                              !.snap = Append(@, disk)]
                     ELSE [app EXCEPT !.pc = "done", !.calls = calls,
                                      !.ret = Exit("err", "patch",
                                                   result.status)]
    /\ UNCHANGED <<patchVars, stageVars, lv, race>>

RunInit ==
    /\ cfg = [root |-> "root", crates |-> <<>>]
    /\ disk \in [Manifests -> RunFiles \cup {NoFile}]
    /\ stage \in [StagePaths -> {"absent", "repo", "other"}]
    /\ \A f \in StagePaths : f # Join(RunDest, "foo") => stage[f] = "absent"
    /\ dl = DlIdle
    /\ \E ps \in ProjectSeqs, c \in CadenceFiles :
          /\ \A m \in Manifests :
                IF \E n \in 1..Len(ps) : m \in ManifestsOf(ps[n])
                   THEN disk[m] \in RunFiles
                   ELSE disk[m] = NoFile
          /\ app = [AppIdle EXCEPT !.pc = "version", !.projects = ps,
                                   !.cadence = c, !.disk0 = disk,
                                   !.stage0 = stage]
    /\ tmp = [d \in Dirs |-> NoFile]
    /\ pc = "idle"
    /\ args = NoArgs
    /\ rootDoc = EmptyTable
    /\ crateDoc = EmptyTable
    /\ idx = 0
    /\ wr = NoWrite
    /\ result = NoResult
    /\ runs = 0
    /\ hist = [start |-> disk, base |-> disk, retry |-> FALSE,
               prev |-> [args |-> NoArgs, status |-> "none"],
               wlog |-> <<>>, pre |-> NoFile]
    /\ lv = LvIdle
    /\ race = RaceIdle

RunNext ==
    \/ \E e \in BOOLEAN : RunVersion(e)
    \/ \E ok \in BOOLEAN : RunPath(ok)
    \/ \E ok \in BOOLEAN : RunConfig(ok)
    \/ \E ok \in BOOLEAN : RunDestination(ok)
    \/ RunRemote
    \/ RunDownload
    \/ \E t \in BOOLEAN : Clone(t)
    \/ Open
    \/ RunStaged
    \/ RunPatch
    \/ \E e \in BOOLEAN : LoadRoot(e)
    \/ \E e \in BOOLEAN : LoadCrate(e)
    \/ WOpen
    \/ WWrite
    \/ WFlush
    \/ WSync
    \/ WRename
    \/ WFail
    \/ RunPatched

SpecRun == RunInit /\ [][RunNext]_vars

(***************************************************************************)
(* Two calls of write_cargo_toml that run at the same time.  A path names  *)
(* a file; an open file descriptor stays with the file it was opened on,   *)
(* whatever the path names later.                                          *)
(***************************************************************************)
Writers == {1, 2}

RaceDirs == {"d0", "d1"}

RaceNames == {"Cargo.toml", "Other.toml", ".cadence-rename"}

RacePaths == {<<d, n>> : d \in RaceDirs, n \in RaceNames}

\* the documents the two calls write
RaceDocs ==
    {override_version(override_source(DocPlain, "/abs"), v) : v \in Versions}
    \cup {override_source(DocNoDeps, "/abs")}

\* let tmp_path = parent.join(".cadence-rename")
tmp_path_fixed(target) == <<"d0", ".cadence-rename">>

tmp_path(target) == <<target[1], ".cadence-rename">>

\* the file a path names
Content(path) ==
    IF race.names[path] = 0 THEN NoFile ELSE File(race.inodes[race.names[path]])

Writer(target, doc) ==
    [pc |-> "w_open", target |-> target, contents |-> Serialize(doc),
     fd |-> 0, off |-> 0, ret |-> "none", fault |-> FALSE]

\* the open of writer p: the file the temp path names, made when there is
\* none, and never truncated
RaceOpen(p) ==
    /\ p \in DOMAIN race.procs
    /\ race.procs[p].pc = "w_open"
    /\ LET me == race.procs[p]
           tp == tmp_path(me.target)
           nx == IF me.contents = <<>> THEN "w_flush" ELSE "w_write"
       IN  IF race.names[tp] = 0
              THEN race' = [race EXCEPT
                      !.inodes = Append(@, <<>>),
                      !.names[tp] = Len(race.inodes) + 1,
                      !.procs[p] = [me EXCEPT !.pc = nx,
                                              !.fd = Len(race.inodes) + 1]]
              ELSE race' = [race EXCEPT
                      !.procs[p] = [me EXCEPT !.pc = nx,
                                              !.fd = race.names[tp]]]
    /\ UNCHANGED <<patchVars, stageVars, lv, app>>

\* write_all of writer p: the next cell goes to its open file
RaceWrite(p) ==
    /\ p \in DOMAIN race.procs
    /\ race.procs[p].pc = "w_write"
    /\ LET me == race.procs[p]
       IN  race' = [race EXCEPT
              !.inodes[me.fd] = WriteAt(@, me.off + 1, me.contents[me.off + 1]),
              !.procs[p] = [me EXCEPT
                  !.off = @ + 1,
                  !.pc = IF me.off + 1 = Len(me.contents) THEN "w_flush"
                         ELSE "w_write"]]
    /\ UNCHANGED <<patchVars, stageVars, lv, app>>

\* flush of writer p
RaceFlush(p) ==
    /\ p \in DOMAIN race.procs
    /\ race.procs[p].pc = "w_flush"
    /\ race' = [race EXCEPT !.procs[p].pc = "w_sync"]
    /\ UNCHANGED <<patchVars, stageVars, lv, app>>

\* sync_all of writer p, and the file is closed
RaceSync(p) ==
    /\ p \in DOMAIN race.procs
    /\ race.procs[p].pc = "w_sync"
    /\ race' = [race EXCEPT !.procs[p].pc = "w_rename"]
    /\ UNCHANGED <<patchVars, stageVars, lv, app>>

\* fs::rename(tmp_path, &p) of writer p: an error when the temp path names
\* no file any more
RaceRename(p) ==
    /\ p \in DOMAIN race.procs
    /\ race.procs[p].pc = "w_rename"
    /\ LET me == race.procs[p]
           tp == tmp_path(me.target)
       IN  IF race.names[tp] = 0
              THEN race' = [race EXCEPT
                      !.procs[p] = [me EXCEPT !.pc = "done", !.ret = "write"]]
              ELSE race' = [race EXCEPT
                      !.names = [@ EXCEPT ![me.target] = race.names[tp],
                                          ![tp] = 0],
                      !.procs[p] = [me EXCEPT !.pc = "done", !.ret = "ok"]]
    /\ UNCHANGED <<patchVars, stageVars, lv, app>>

\* an operation of writer p returns an io::Error of the device
RaceFail(p) ==
    /\ p \in DOMAIN race.procs
    /\ race.procs[p].pc \in {"w_open", "w_write", "w_flush", "w_sync", "w_rename"}
    /\ race' = [race EXCEPT !.procs[p] = [@ EXCEPT !.pc = "done",
                                                   !.ret = "write",
                                                   !.fault = TRUE]]
    /\ UNCHANGED <<patchVars, stageVars, lv, app>>

RaceInit ==
    /\ \E d \in RaceDirs, a, b \in RaceDocs :
          /\ a # b
          /\ race = [names  |-> [x \in RacePaths |->
                                   IF x = <<"d0", "Cargo.toml">> THEN 1
                                   ELSE IF x = <<d, "Other.toml">> THEN 2
                                   ELSE 0],
                     inodes |-> <<Serialize(DocPlain), Serialize(DocNoDeps)>>,
                     procs  |-> [p \in Writers |->
                                   IF p = 1
                                      THEN Writer(<<"d0", "Cargo.toml">>, a)
                                      ELSE Writer(<<d, "Other.toml">>, b)]]
    /\ lv = LvIdle
    /\ app = AppIdle
    /\ StageInit0
    /\ disk = [m \in Manifests |-> NoFile]
    /\ tmp = [d \in Dirs |-> NoFile]
    /\ cfg = [root |-> "root", crates |-> <<>>]
    /\ pc = "idle"
    /\ args = NoArgs
    /\ rootDoc = EmptyTable
    /\ crateDoc = EmptyTable
    /\ idx = 0
    /\ wr = NoWrite
    /\ result = NoResult
    /\ runs = 0
    /\ hist = [start |-> disk, base |-> disk, retry |-> FALSE,
               prev |-> [args |-> NoArgs, status |-> "none"],
               wlog |-> <<>>, pre |-> NoFile]

RaceNext ==
    \E p \in Writers :
        \/ RaceOpen(p)
        \/ RaceWrite(p)
        \/ RaceFlush(p)
        \/ RaceSync(p)
        \/ RaceRename(p)
        \/ RaceFail(p)

SpecRace == RaceInit /\ [][RaceNext]_vars

(***************************************************************************)
(* What the properties speak about.                                        *)
(***************************************************************************)
W == {"w_open", "w_write", "w_flush", "w_sync", "w_rename"}

\* the document in file f; the empty table when f is not a manifest
DocIn(f) == IF f.exists /\ ParseOk(f.text) THEN Parse(f.text) ELSE EmptyTable

Loadable(f) == f.exists /\ ParseOk(f.text)

\* the entry `dependencies.cadence` of a document, as a table of one key
\* (empty when the entry is not there)
DepEntry(doc) == Restrict(TableAt(doc, <<"dependencies">>).kv,
                          {"cadence"} \cap DOMAIN TableAt(doc, <<"dependencies">>).kv)

HasVersion(doc, v) ==
    /\ has_dependencies(doc)
    /\ "cadence" \in DOMAIN doc.sub["dependencies"].kv
    /\ doc.sub["dependencies"].kv["cadence"] = v

HasLocalPath(doc, p) ==
    TableAt(doc, <<"patch", "crates-io", "cadence">>) = StrMap("path", p)

CrateSet == {cfg.crates[n] : n \in 1..Len(cfg.crates)}

\* the children are manifests of their own: none is the root
Distinct == cfg.root \notin CrateSet

\* a patch call that meets no error, as a function of the disk
RECURSIVE PatchCrates(_, _, _)
PatchCrates(d, crates, v) ==
    IF crates = <<>> THEN d
    ELSE PatchCrates(
            [d EXCEPT ![Head(crates)] =
                File(Serialize(override_version(Parse(d[Head(crates)].text), v)))],
            Tail(crates), v)

PatchOnce(d, root, crates, v, p) ==
    LET src == override_source(Parse(d[root].text), p)
        doc == IF crates = <<>> THEN override_version(src, v) ELSE src
    IN  [PatchCrates(d, crates, v) EXCEPT ![root] = File(Serialize(doc))]

(***************************************************************************)
(* C1  Source-override preserves siblings: once the root is loaded and     *)
(* override_source has run, every entry the root manifest had under        *)
(* patch.crates-io for another crate is in the document unchanged, next to *)
(* patch.crates-io.cadence.path = local_path.                              *)
(***************************************************************************)
C1_SiblingsPreserved ==
    pc \in W \cup {"load_crate"} =>
        LET before == TableAt(Parse(hist.start[cfg.root].text), <<"patch", "crates-io">>)
            after  == TableAt(rootDoc, <<"patch", "crates-io">>)
        IN  /\ HasLocalPath(rootDoc, args.path)
            /\ \A k \in (DOMAIN before.sub) \ {"cadence"} :
                  /\ k \in DOMAIN after.sub
                  /\ after.sub[k] = before.sub[k]

(***************************************************************************)
(* C2  Missing dependency section fails closed: when a manifest that is to *)
(* receive the version override (the root when there are no children,      *)
(* otherwise a child) has no `dependencies` table, patch returns an error  *)
(* and that manifest is on disk as it was before the call.                 *)
(***************************************************************************)
VersionTargets == IF cfg.crates = <<>> THEN {cfg.root} ELSE CrateSet

NoDepsTargets ==
    {m \in VersionTargets :
        Loadable(hist.start[m]) /\ ~has_dependencies(Parse(hist.start[m].text))}

C2_MissingDepsFailsClosed ==
    (pc = "done" /\ NoDepsTargets # {}) =>
        /\ result.status # "ok"
        /\ \A m \in NoDepsTargets : disk[m] = hist.start[m]

(***************************************************************************)
(* C3  Workspace routing: after a successful patch with children (each a   *)
(* manifest of its own), the root has patch.crates-io.cadence.path =       *)
(* local_path and its dependencies.cadence entry as before the call, every *)
(* child has dependencies.cadence = version, and no child's `patch` table  *)
(* has changed.                                                            *)
(***************************************************************************)
C3_WorkspaceRouting ==
    (pc = "done" /\ result.status = "ok" /\ cfg.crates # <<>> /\ Distinct) =>
        /\ HasLocalPath(DocIn(disk[cfg.root]), args.path)
        /\ DepEntry(DocIn(disk[cfg.root])) = DepEntry(DocIn(hist.start[cfg.root]))
        /\ \A c \in CrateSet :
              /\ HasVersion(DocIn(disk[c]), args.version)
              /\ TableAt(DocIn(disk[c]), <<"patch">>)
                    = TableAt(DocIn(hist.start[c]), <<"patch">>)

(***************************************************************************)
(* C4  Atomic write (each child a manifest of its own): while              *)
(* write_cargo_toml is between opening the temp file and the rename, the   *)
(* file at `path` is what it was when the write began; the rename makes it *)
(* exactly the serialized text.                                            *)
(***************************************************************************)
C4_AtomicWrite ==
    [][Distinct =>
          /\ pc' \in W => disk'[wr'.target] = hist'.pre
          /\ (pc = "w_rename" /\ hist'.wlog # hist.wlog) =>
                 disk'[wr.target] = File(wr.contents)]_vars

(***************************************************************************)
(* C5  Non-transactional partial failure: the manifests are written in the *)
(* order c1..cn, root; when patch returns an error met at child ck (each   *)
(* child a manifest of its own), c1..c(k-1) have the new version on disk   *)
(* and ck..cn and the root are on disk as before the call.                 *)
(***************************************************************************)
C5_PartialFailure ==
    /\ \E n \in 0..(Len(cfg.crates) + 1) :
          hist.wlog = SubSeq(cfg.crates \o <<cfg.root>>, 1, n)
    /\ (pc = "done" /\ result.status \notin {"ok", "none"} /\ result.at >= 1
          /\ Distinct) =>
          /\ \A j \in 1..(result.at - 1) :
                HasVersion(DocIn(disk[cfg.crates[j]]), args.version)
          /\ \A j \in result.at..Len(cfg.crates) :
                disk[cfg.crates[j]] = hist.start[cfg.crates[j]]
          /\ disk[cfg.root] = hist.start[cfg.root]

(***************************************************************************)
(* C6  Safe to retry: when a patch call that failed is made again with the *)
(* same arguments and succeeds, every manifest is what one patch call that *)
(* met no error would have made of the manifests the failed call found.    *)
(***************************************************************************)
C6_SafeToRetry ==
    (pc = "done" /\ result.status = "ok" /\ hist.retry) =>
        disk = PatchOnce(hist.base, cfg.root, cfg.crates, args.version, args.path)

(***************************************************************************)
(* C7  Idempotent version overwrite: the version override applied to a     *)
(* document it was already applied to changes nothing, and a successful    *)
(* patch call after a successful patch call with the same arguments leaves *)
(* every manifest as it found it.                                          *)
(***************************************************************************)
C7_IdempotentVersion ==
    /\ (pc \in W /\ idx >= 1 /\ idx <= Len(cfg.crates)) =>
          override_version(crateDoc, args.version) = crateDoc
    /\ (pc \in W /\ cfg.crates = <<>>) =>
          override_version(rootDoc, args.version) = rootDoc
    /\ (pc = "done" /\ result.status = "ok" /\ hist.prev.status = "ok"
          /\ hist.prev.args = args) => disk = hist.start

\* a second successful call with the same arguments has ended, and it had a
\* child with a `dependencies` table to override
C7_Witness ==
    /\ pc = "done" /\ result.status = "ok" /\ hist.prev.status = "ok"
    /\ hist.prev.args = args
    /\ \E c \in CrateSet : HasVersion(DocIn(disk[c]), args.version)

SameCallAgain ==
    /\ dl.pc = "done"
    /\ dl.prev.ret.status = "ok"
    /\ dl.prev.url = dl.url
    /\ dl.prev.into = dl.into

C8_StageIdempotent ==
    SameCallAgain =>
        /\ dl.ret.status = "ok"
        /\ dl.ret.path = dl.prev.ret.path
        /\ dl.ret.path = Join(dl.into, file_stem(dl.url).val)
        /\ dl.ops = <<[op |-> "clone", code |-> "Exists"],
                      [op |-> "open", code |-> "Ok"]>>

\* the second of two equal calls has returned, the first having cloned
C8_Witness ==
    /\ SameCallAgain
    /\ dl.n = 2
    /\ dl.ret.status = "ok"

(***************************************************************************)
(* C10  Staging error classification: a clone that fails with another code *)
(* than `Exists` makes download return an error with no open attempted; a  *)
(* clone that fails with `Exists` followed by an open that fails makes it  *)
(* return an error; a path is returned only when the clone or the open     *)
(* succeeded.                                                              *)
(***************************************************************************)
OpCodes(op) == {dl.ops[n].code : n \in {j \in 1..Len(dl.ops) : dl.ops[j].op = op}}

C10_ErrorClassification ==
    dl.pc = "done" =>
        /\ (OpCodes("clone") \ {"Ok", "Exists"} # {}) =>
              /\ dl.ret.status = "vcs"
              /\ dl.ret.path = <<>>
              /\ OpCodes("open") = {}
        /\ ("Exists" \in OpCodes("clone") /\ "NotFound" \in OpCodes("open")) =>
              /\ dl.ret.status = "vcs"
              /\ dl.ret.path = <<>>
        /\ dl.ret.status = "ok" =>
              /\ "Ok" \in OpCodes("clone") \cup OpCodes("open")
              /\ dl.ret.path = dl.full

\* after a call that returned an error, a clone has ended with `Exists` and
\* the open has found no checkout
C10_Witness ==
    /\ dl.pc = "done"
    /\ dl.n = 2
    /\ dl.prev.ret.status = "vcs"
    /\ dl.ret.status = "vcs"
    /\ dl.ops = <<[op |-> "clone", code |-> "Exists"],
                  [op |-> "open", code |-> "NotFound"]>>

\* the lines of text that give key k a value
LinesOf(text, k) ==
    {n \in 1..Len(text) : text[n].kind = "kv" /\ text[n].key = k}

\* C11: version returns the string at package.version as it stands in the
\* manifest when the manifest is read, is TOML, has a table `package` and
\* that table has a string `version`; a manifest that is not read or is not
\* TOML gives an error and no value; `package` absent or not a table, and
\* `version` absent or not a string, give the missing-field error.
C11_VersionResolution ==
    lv.pc = "done" =>
        LET f       == lv.file
            loaded  == ~lv.ioerr /\ f.exists /\ ParseOk(f.text)
            doc     == Parse(f.text)
            package == TableAt(doc, <<"package">>)
        IN  /\ ~loaded => lv.ret = [status |-> "load", val |-> ""]
            /\ (loaded /\ "package" \notin DOMAIN doc.sub) =>
                  lv.ret = [status |-> "missing", val |-> ""]
            /\ (loaded /\ "version" \notin DOMAIN package.kv) =>
                  lv.ret = [status |-> "missing", val |-> ""]
            /\ (loaded /\ "package" \in DOMAIN doc.sub
                       /\ "version" \in DOMAIN package.kv) =>
                  /\ lv.ret = [status |-> "ok", val |-> package.kv["version"]]
                  /\ \E n \in LinesOf(f.text, "version") :
                        /\ f.text[n].val = lv.ret.val
                        /\ \E h \in 1..(n - 1) :
                              /\ f.text[h] = HdrLine(<<"package">>)
                              /\ \A x \in (h + 1)..(n - 1) : f.text[x].kind # "hdr"

\* version returned a long version string of a manifest that has other lines
C11_Witness ==
    /\ lv.pc = "done"
    /\ lv.ret = [status |-> "ok", val |-> "2.0.0-local"]
    /\ Len(lv.file.text) = 3

\* C12: a root manifest that cannot be read or parsed ends patch at once with
\* that error: the step from the load of the root to the return changes no
\* file, neither a manifest nor a `.cadence-rename`, and nothing was written
\* between the call and that step.
C12_RootLoadFailure ==
    [][/\ (pc # "load_root" /\ pc' = "load_root") =>
              (disk' = disk /\ tmp' = tmp)
       /\ (pc = "load_root" /\ ~Loadable(disk[cfg.root])) => pc' = "done"
       /\ (pc = "load_root" /\ pc' = "done") =>
              /\ result'.status \in {"read", "parse"}
              /\ result'.at = 0
              /\ disk' = disk
              /\ tmp' = tmp
              /\ disk = hist.start
              /\ hist.wlog = <<>>]_vars

\* a patch of a root with children returned the read error of the root while
\* a `.cadence-rename` of an earlier call was there
C12_Witness ==
    /\ pc = "done"
    /\ result = Err("read", 0)
    /\ cfg.crates # <<>>
    /\ hist.wlog = <<>>
    /\ disk = hist.start
    /\ \E d \in Dirs : tmp[d].exists

\* the write in progress is of a manifest that takes the version override
VersionWrite == cfg.crates = <<>> \/ idx <= Len(cfg.crates)

\* the manifest has a `dependencies` table without the key `cadence`
LacksCadence(f) ==
    /\ f.exists
    /\ LET st == ParseFrom(ParseStart, f.text)
       IN  /\ st.ok /\ ~st.more
           /\ has_dependencies(st.doc)
           /\ ~HasKey(st.doc.sub["dependencies"], "cadence")

\* C13: a manifest whose `dependencies` table has no `cadence` key is not an
\* error: its load is followed by the write, and the text handed to the
\* write has `dependencies.cadence` set to the version and every other key
\* of `dependencies` as it was.
C13_InsertsNewKey ==
    /\ [](pc = "w_open" /\ VersionWrite /\ LacksCadence(hist.pre) =>
             LET old == DocIn(hist.pre).sub["dependencies"]
                 new == TableAt(Parse(wr.contents), <<"dependencies">>)
             IN  /\ ParseOk(wr.contents)
                 /\ DOMAIN new.kv = DOMAIN old.kv \cup {"cadence"}
                 /\ DOMAIN new.sub = DOMAIN old.sub
                 /\ new.kv["cadence"] = args.version
                 /\ \A k \in DOMAIN old.kv : new.kv[k] = old.kv[k]
                 /\ \A k \in DOMAIN old.sub : new.sub[k] = old.sub[k])
    /\ [][(pc = "load_crate" /\ LacksCadence(disk[cfg.crates[idx]])) =>
             \/ pc' = "w_open" /\ wr'.target = cfg.crates[idx]
             \/ pc' = "done" /\ result' = Err("read", idx)]_vars

\* the write of a child that had `dependencies.other` and no
\* `dependencies.cadence` is entered
C13_Witness ==
    /\ pc = "w_open"
    /\ VersionWrite
    /\ wr.target = "c1"
    /\ hist.pre = File(TextByHand)
    /\ TableAt(Parse(wr.contents), <<"dependencies">>).kv =
          [k \in {"cadence", "other"} |->
              IF k = "cadence" THEN args.version ELSE "1.0"]

\* the manifests patch writes for a project, in the order of the writes
Writes(pr) == pr.crates \o <<pr.root>>

\* the calls of a run that fails nowhere, in the order of the code
RECURSIVE ProjectEvents(_, _)
ProjectEvents(n, last) ==
    IF n > last THEN <<>>
    ELSE <<Event("remote", n), Event("download", n), Event("patch", n)>>
         \o ProjectEvents(n + 1, last)

Canon ==
    <<Event("version", 0), Event("path", 0), Event("config", 0),
      Event("destination", 0)>> \o ProjectEvents(1, Len(app.projects))

IsPrefix(a, b) == Len(a) <= Len(b) /\ SubSeq(b, 1, Len(a)) = a

\* the manifests of the projects from number n on are as the run found them
UntouchedFrom(n) ==
    \A j \in n..Len(app.projects) :
        \A m \in ManifestsOf(app.projects[j]) : disk[m] = app.disk0[m]

\* C14: run works on one project at a time and in the order of the
\* configuration: the version, the path, the configuration and the
\* destination are each resolved once and before any staging; while a
\* project is staged no patch is running, the patch of the project before it
\* has returned Ok with all its manifests written, and no manifest of this or
\* a later project has been touched; while a patch runs, the staging of its
\* project has returned its checkout and no later project has been staged.
C14_SequentialRun ==
    /\ IsPrefix(app.calls, Canon)
    /\ runs <= dl.n /\ dl.n <= runs + 1
    /\ dl.pc \in {"clone", "open"} =>
          /\ app.pc = "download"
          /\ app.i = dl.n
          /\ pc \in {"idle", "done"}
          /\ runs = dl.n - 1
          /\ Len(app.calls) = 3 * dl.n + 2
          /\ dl.n > 1 => /\ result = Ok
                         /\ hist.wlog = Writes(app.projects[dl.n - 1])
          /\ UntouchedFrom(dl.n)
    /\ pc \notin {"idle", "done"} =>
          /\ app.pc = "patch"
          /\ app.i = runs
          /\ dl.n = runs
          /\ dl.pc = "done"
          /\ dl.ret = RetOk(Join(RunDest, proj_name(app.projects[runs].url).val))
          /\ stage[dl.ret.path] = "repo"
          /\ cfg = [root |-> app.projects[runs].root,
                    crates |-> app.projects[runs].crates]
          /\ args = [version |-> app.version, path |-> app.path]
          /\ Len(app.calls) = 3 * runs + 3
          /\ UntouchedFrom(runs + 1)

\* the second project is being cloned after the child and the root of the
\* first were written
C14_Witness ==
    /\ dl.pc = "clone"
    /\ dl.n = 2
    /\ app.i = 2
    /\ result = Ok
    /\ hist.wlog = <<"c1", "root">>
    /\ disk["c1"] # app.disk0["c1"]

\* the directory project number j is staged in
StageDir(j) == Join(RunDest, proj_name(app.projects[j].url).val)

\* C15: the first failure ends run with that error.  A failure before the
\* loop leaves everything untouched; a failed staging of project i is
\* followed by no patch call and leaves the manifests of i untouched; a
\* failed patch of project i is the last call.  In each case every project
\* was staged and patched at most once, the projects after i were neither
\* staged nor patched, and the manifests of the projects before i are as
\* their patch left them.
C15_AbortOnFirstFailure ==
    /\ (dl.pc = "done" /\ dl.ret.status # "ok") =>
          /\ app.pc \in {"download", "done"}
          /\ app.i = dl.n
          /\ runs = dl.n - 1
          /\ pc \in {"idle", "done"}
    /\ (pc = "done" /\ result.status # "ok") =>
          /\ app.pc \in {"patch", "done"}
          /\ app.i = runs
          /\ dl.n = runs
          /\ dl.pc = "done"
    /\ (app.pc = "done" /\ app.ret.status = "err") =>
        LET i  == app.i
            ps == app.projects
        IN  /\ dl.pc \in {"idle", "done"}
            /\ pc \in {"idle", "done"}
            /\ IsPrefix(app.calls, Canon)
            /\ app.calls[Len(app.calls)] = Event(app.ret.step, i)
            /\ app.ret.step \in {"version", "path", "config", "destination"} =>
                  /\ i = 0 /\ dl.n = 0 /\ runs = 0
                  /\ disk = app.disk0 /\ stage = app.stage0
                  /\ \A d \in Dirs : tmp[d] = NoFile
            /\ app.ret.step = "download" =>
                  /\ i >= 1 /\ dl.n = i /\ runs = i - 1
                  /\ dl.ret.status \in {"name", "vcs"}
                  /\ app.ret.cause = dl.ret.status
                  /\ UntouchedFrom(i)
            /\ app.ret.step = "patch" =>
                  /\ i >= 1 /\ dl.n = i /\ runs = i
                  /\ result.status \in {"read", "parse", "write"}
                  /\ app.ret.cause = result.status
            /\ app.ret.step \in {"version", "path", "config", "destination",
                                 "download", "patch"}
            /\ UntouchedFrom(i + 1)
            /\ \A j \in (i + 1)..Len(ps) :
                  proj_name(ps[j].url).some =>
                      stage[StageDir(j)] = app.stage0[StageDir(j)]
            /\ i >= 1 => Len(app.snap) = i - 1
            /\ \A j \in 1..(i - 1) :
                  /\ stage[StageDir(j)] = "repo"
                  /\ HasLocalPath(DocIn(disk[ps[j].root]), app.path)
                  /\ \A m \in ManifestsOf(ps[j]) :
                        /\ disk[m] = app.snap[j][m]
                        /\ disk[m] # app.disk0[m]

\* the staging of the second project failed after the first project, a root
\* with a child, was patched
C15_Witness ==
    /\ app.pc = "done"
    /\ app.ret.status = "err"
    /\ app.ret.step = "download"
    /\ app.i = 2
    /\ runs = 1
    /\ app.projects[1].crates = <<"c1">>
    /\ HasVersion(DocIn(disk["c1"]), app.version)
    /\ disk[app.projects[2].root] = app.disk0[app.projects[2].root]

\* C16: download names the directory after the file stem of the URL.  A URL
\* without a file stem ends the call at once with the name error: no clone
\* and no open is made and no directory under any destination changes; a
\* URL with a stem never gives the name error and is staged at into/stem.
C16_NameResolution ==
    /\ [](dl.n >= 1 =>
             IF file_stem(dl.url).some
                THEN /\ dl.full = Join(dl.into, file_stem(dl.url).val)
                     /\ dl.ret.status # "name"
                ELSE /\ dl.pc = "done"
                     /\ dl.ret = RetErr("name")
                     /\ dl.ops = <<>>
                     /\ dl.full = <<>>)
    /\ [][(dl'.n # dl.n /\ ~file_stem(dl'.url).some) => stage' = stage]_vars

\* download of a URL that ends in `..` returned the name error
C16_Witness ==
    /\ dl.pc = "done"
    /\ dl.ret = RetErr("name")
    /\ Len(dl.url) = 3
    /\ dl.ops = <<>>

\* the two writers work in the same directory
SameDir == race.procs[1].target[1] = race.procs[2].target[1]

\* the manifest of writer p as it was before the writes
OldContent(p) == File(IF p = 1 THEN Serialize(DocPlain) ELSE Serialize(DocNoDeps))

\* C17: two writes that run at the same time in different directories do not
\* touch each other: in every state the manifest of a writer that has not
\* returned Ok is as it was, the manifest of a writer that returned Ok holds
\* exactly that writer's text, and a writer fails only on an error of the
\* device.  (In one directory the shared `.cadence-rename` breaks this: the
\* witness is such a run.)
C17_ConcurrentWriters ==
    (race.procs # <<>> /\ ~SameDir) =>
        \A p \in Writers :
            LET me == race.procs[p]
            IN  /\ me.ret = "ok" => Content(me.target) = File(me.contents)
                /\ me.ret # "ok" => Content(me.target) = OldContent(p)
                /\ me.pc = "done" => (me.ret = "ok" \/ me.fault)
                /\ \A q \in Writers \ {p} : me.fd # 0 => me.fd # race.procs[q].fd

\* in one directory, with no error of the device: writer 1 returned Ok and
\* its manifest holds the text of writer 2, whose rename failed
C17_Witness ==
    /\ race.procs # <<>>
    /\ SameDir
    /\ \A p \in Writers : race.procs[p].pc = "done" /\ ~race.procs[p].fault
    /\ race.procs[1].ret = "ok"
    /\ race.procs[2].ret = "write"
    /\ Content(race.procs[1].target) = File(race.procs[2].contents)
    /\ Content(race.procs[2].target) = OldContent(2)

\* a write has returned Ok in this step
WriteDone == hist'.wlog = Append(hist.wlog, wr.target)

\* C18: when a write returns Ok the file at its path is exactly the text
\* that was serialized, whatever `.cadence-rename` held when it was opened.
C18_ExactContent ==
    [][WriteDone => disk'[wr.target] = File(wr.contents)]_vars

\* C19: after the first patch call, made with children that all have a
\* `dependencies` table, returned Ok, every child has
\* `dependencies.cadence = version` on disk, a child that is the root's own
\* manifest included.
C19_ChildrenOverridden ==
    (/\ pc = "done"
     /\ result = Ok
     /\ runs = 1
     /\ cfg.crates # <<>>
     /\ \A m \in CrateSet : has_dependencies(DocIn(hist.start[m]))) =>
        \A m \in CrateSet : HasVersion(DocIn(disk[m]), args.version)

\* the manifests a patch call names
Named == {cfg.root} \cup CrateSet

\* C20: a write that returns Ok leaves no `.cadence-rename` in the directory
\* of its manifest and changes no other file; after a patch that returned Ok
\* no directory of a manifest it names holds a `.cadence-rename`; and at no
\* time has a manifest that the call does not name changed.
C20_NoTempLeftBehind ==
    /\ [][WriteDone =>
             /\ tmp'[DirOf(wr.target)] = NoFile
             /\ \A m \in Manifests \ {wr.target} : disk'[m] = disk[m]
             /\ \A d \in Dirs \ {DirOf(wr.target)} : tmp'[d] = tmp[d]]_vars
    /\ []((pc = "done" /\ result = Ok) =>
             /\ \A m \in Named : tmp[DirOf(m)] = NoFile
             /\ \A n \in 1..Len(hist.wlog) : hist.wlog[n] \in Named)
    /\ [](\A m \in Manifests \ Named :
             disk[m] = hist.start[m] /\ tmp[DirOf(m)] = NoFile)

\* a patch of a root with children returned Ok after an earlier call had
\* failed in a write, and no `.cadence-rename` is left
C20_Witness ==
    /\ pc = "done"
    /\ result = Ok
    /\ runs = 2
    /\ hist.prev.status = "write"
    /\ cfg.crates # <<>>
    /\ disk # hist.start
    /\ \A d \in Dirs : tmp[d] = NoFile

====
